---- MODULE Spec2Model ----
(***************************************************************************)
(* Travel-route optimiser: the route solver (backend/solver.py), the       *)
(* distance matrix provider (backend/distance.py), the optimize stream     *)
(* (backend/main.py) and the geocoder with its cache file                  *)
(* (backend/geocoder.py).                                                  *)
(*                                                                         *)
(* Conventions.  A numpy matrix is a function over 0..k-1 of functions     *)
(* over 0..k-1.  A Python list is a TLA+ sequence, so element i of the     *)
(* list is element i + 1 of the sequence; the values held (node and point  *)
(* indices) stay 0-based.  An Optional value is a sequence of length 0     *)
(* (None) or 1 (<<v>>).  Distances are whole metres.                       *)
(***************************************************************************)
EXTENDS Integers, Sequences, FiniteSets, TLC

VARIABLES
    \* ---- solve_tsp ----
    s_pc,              \* position in solve_tsp: "call", "built", "searched", "returned",
                       \*   "raised", and "idle" when not called
    distance_matrix,   \* argument: n x n matrix of metres
    revenues,          \* argument: <<>> (None) or <<list>>
    revenue_weight,    \* argument, in tenths (3 is 0.3)
    depot_idx,         \* argument: <<>> (None) or <<index>>
    closed,            \* argument
    int_matrix,        \* the integer arc costs registered with the search engine
    routing,           \* the RoutingIndexManager: [size, start, end, skip]
    solution,          \* result of SolveWithParameters: <<>> (none) or <<tour>>
    route,             \* the returned list
    \* ---- compute_distance_matrix ----
    d_pc,              \* position: "call", "single", "chunked", "fallback",
                       \*           "returned", "raised", and "idle" when not called
    coords,            \* argument: the points, 0-indexed
    use_roads,         \* argument
    max_coords,        \* the module's OSRM_MAX_COORDS as this call reads it
    chunk_size,        \* the module's CHUNK_SIZE as this call reads it
    service,           \* the live service: [null, negative], each <<>> or <<point pair>>
    matrix,            \* _osrm_full_matrix: the matrix being assembled
    pair,              \* _osrm_full_matrix: the chunk pair the loops are at
    requests,          \* every request sent so far, with what came back and
                       \*   the number of cells the loop of lines 139-142 wrote
    result,            \* the returned matrix
    \* ---- optimize_route._stream ----
    p_pc,              \* position in _stream: "base", "geocoding", "filter",
                       \*   "distance" (in compute_distance_matrix), "solve" (in
                       \*   solve_tsp), "done" (returned), "crashed" (an exception
                       \*   left the generator), and "idle" when not running
    journey_mode,      \* form field: "continue", "same_start", "round_trip"
    start_address,     \* form field: TRUE when a start address was given
    has_coords,        \* the CSV has lat and lng columns
    n_rows,            \* len(df): the number of CSV rows
    prioritize_revenue,\* form field
    stores_per_day,    \* form field
    all_revenues,      \* the parsed revenue column, <<>> when there is none
    base_coords,       \* <<>> (None) or <<point>>
    geocoded,          \* list of [status, point]
    valid_indices,     \* rows geocoded ok, 0-based
    stream_coords,     \* _stream's coords list
    stream_depot_idx,  \* _stream's depot_idx: <<>> (None) or <<index>>
    dist_matrix,       \* what compute_distance_matrix returned
    stores_response,   \* list of [visit_order, original_idx, node]
    summary,           \* <<>> or <<[total_stores]>>
    events,            \* the NDJSON lines yielded so far: [type, stage]
    \* ---- geocoder.py: the runs that share the cache file ----
    cache_file,        \* CACHE_FILE: the dict stored on disk, query -> location
    g_pc,              \* per run: "load", "query" (in _geocode_single), "save",
                       \*   "done", and "idle" when not running
    g_cache,           \* per run: the dict _load_cache returned, updated in place
    g_addresses,       \* per run: the addresses, each as its _build_queries list
    g_i,               \* per run: the address the loop is at, 1-based
    g_q,               \* per run: the query _geocode_single is at, 1-based
    g_tried,           \* per run: the queries tried in this call, with what came of each
    g_before,          \* per run: the cache at the start of this call
    g_calls,           \* per run: the finished calls of _geocode_single
    g_order            \* the loads and saves of the file, in the order they happened

solver_vars == <<s_pc, distance_matrix, revenues, revenue_weight, depot_idx,
                 closed, int_matrix, routing, solution, route>>

distance_vars == <<d_pc, coords, use_roads, max_coords, chunk_size, service,
                   matrix, pair, requests, result>>

stream_vars == <<p_pc, journey_mode, start_address, has_coords, n_rows,
                 prioritize_revenue, stores_per_day, all_revenues, base_coords,
                 geocoded,
                 valid_indices, stream_coords, stream_depot_idx, dist_matrix,
                 stores_response, summary, events>>

geocode_vars == <<cache_file, g_pc, g_cache, g_addresses, g_i, g_q, g_tried,
                  g_before, g_calls, g_order>>

vars == <<solver_vars, distance_vars, stream_vars, geocode_vars>>

----------------------------------------------------------------------------
(* Bounds of the model *)

\* largest number of real nodes of a solve_tsp call
MaxN == 3

\* the unreachable sentinel of the distance provider, 1e9 metres
UNREACHABLE == 1000000000
\* solve_tsp: scale = 1000
scale == 1000
\* solve_tsp: cost of every arc leaving the dummy end node
DUMMY_END_COST == 999999999
\* revenue_weight is held in tenths
WeightDen == 10

\* distances a cell of an input matrix may hold
DistVals == {1, 1500, UNREACHABLE}
\* revenue_weight values: 0, the default 0.3, and 1.0
WeightVals == {0, 3, 10}
\* revenues a node may have
RevenueVals == {0, 1, 2}

----------------------------------------------------------------------------
(* Helpers *)

Range(k) == 0..(k - 1)

\* list(range(k)) as a sequence
RangeSeq(k) == [i \in 1..k |-> i - 1]

SeqSet(s) == {s[i] : i \in 1..Len(s)}

RECURSIVE Perms(_)
\* all orderings of the finite set S, as sequences
Perms(S) ==
    IF S = {} THEN {<<>>}
    ELSE UNION {{<<x>> \o p : p \in Perms(S \ {x})} : x \in S}

SetMax(S) == CHOOSE x \in S : \A y \in S : y <= x

\* distance_matrix.max(): over every cell of the array (n is len(m))
MatMax(m, n) == SetMax(UNION {{m[i][j] : j \in DOMAIN m[i]} : i \in DOMAIN m})

\* The distance matrices of the calls: zero diagonal, one value above the
\* diagonal, one below it (road distances are directed), and one for the
\* leg from the first node to the last.  For n = 2 these are all matrices
\* over vals.
InputMatrices(n, vals) ==
    {[i \in Range(n) |-> [j \in Range(n) |->
        IF i = j THEN 0
        ELSE IF i = 0 /\ j = n - 1 THEN c
        ELSE IF i < j THEN a ELSE b]] : a \in vals, b \in vals, c \in vals}

----------------------------------------------------------------------------
(* solve_tsp: the cost transform and the arc-cost matrix *)

\* the condition of solver.py line 49
BiasApplies(n, revs, weight) ==
    /\ revs # <<>>
    /\ weight > 0
    /\ Len(revs[1]) = n

\* An int64 of the code is held as <<q, r>> with value q * scale + r and
\* 0 <= r < scale, because TLC's integers are 32 bits wide and
\* 1e9 * 1000 is not.
Int64(x) == <<x \div scale, x % scale>>

Int64Less(a, b) == a[1] < b[1] \/ (a[1] = b[1] /\ a[2] < b[2])

\* ScaledPenalty with the penalty growing with the node's revenue:
\* revenue_weight * max_dist * norm_rev[j]
ScaledPenaltyInverted(max_dist, max_rev, rev_j, weight) ==
    LET num == weight * rev_j
        den == WeightDen * max_rev
        q   == max_dist \div den
        r   == max_dist % den
    IN  <<q * num + ((r * num) \div den), (((r * num) % den) * scale) \div den>>

\* revenue_weight * max_dist * (1 - rev[j] / max_rev) of line 56, times
\* scale, truncated, as an Int64.  Computed exactly over the rationals:
\* max_dist * num / den with num = weight * (max_rev - rev[j]) and
\* den = WeightDen * max_rev, dividing max_dist first to stay in range.
ScaledPenalty(max_dist, max_rev, rev_j, weight) ==
    LET num == weight * (max_rev - rev_j)
        den == WeightDen * max_rev
        q   == max_dist \div den
        r   == max_dist % den
    IN  <<q * num + ((r * num) \div den), (((r * num) % den) * scale) \div den>>

\* ScaledCost with a zero revenue_weight replaced by the default 0.3
\* ("revenue_weight or 0.3")
ScaledCostDefaultedWeight(dm, n, revs, weight, i, j) ==
    LET w == IF weight = 0 THEN 3 ELSE weight
    IN  IF revs = <<>> \/ Len(revs[1]) # n THEN <<dm[i][j], 0>>
        ELSE LET rev     == revs[1]
                 max_rev == SetMax(SeqSet(rev))
                 pen     == ScaledPenalty(MatMax(dm, n), max_rev, rev[j + 1], w)
             IN  IF max_rev > 0
                 THEN <<dm[i][j] + pen[1], pen[2]>>
                 ELSE <<dm[i][j], 0>>

\* int(cost_matrix[i][j] * scale) for real nodes i, j (lines 47-57 and 66,
\* 89, 115): the distance plus the column penalty.  rev is the list as a
\* sequence, so rev[j + 1] is the code's rev[j].
ScaledCost(dm, n, revs, weight, i, j) ==
    IF ~BiasApplies(n, revs, weight) THEN <<dm[i][j], 0>>
    ELSE LET rev     == revs[1]
             max_rev == SetMax(SeqSet(rev))
             pen     == ScaledPenalty(MatMax(dm, n), max_rev, rev[j + 1], weight)
         IN  IF max_rev > 0
             THEN <<dm[i][j] + pen[1], pen[2]>>
             ELSE <<dm[i][j], 0>>

\* which branch of solve_tsp runs (lines 61, 80, 107)
Mode(depot, cl) ==
    IF depot # <<>> /\ cl THEN "Closed"
    ELSE IF depot # <<>> /\ ~cl THEN "FixedStart"
    ELSE "Continue"

\* the int_matrix of the branch taken (lines 63-66, 84-93, 110-115)
IntMatrix(dm, n, revs, weight, depot, cl) ==
    IF Mode(depot, cl) = "Closed"
    THEN [i \in Range(n) |-> [j \in Range(n) |-> ScaledCost(dm, n, revs, weight, i, j)]]
    ELSE IF Mode(depot, cl) = "FixedStart"
    THEN [i \in Range(n + 1) |-> [j \in Range(n + 1) |->
            IF i < n /\ j < n THEN ScaledCost(dm, n, revs, weight, i, j)
            ELSE IF i = n /\ j < n THEN Int64(DUMMY_END_COST)
            ELSE Int64(0)]]
    ELSE [i \in Range(n + 1) |-> [j \in Range(n + 1) |->
            IF i < n /\ j < n THEN ScaledCost(dm, n, revs, weight, i, j)
            ELSE Int64(0)]]

\* the RoutingIndexManager and skip_nodes of the branch taken (lines 68/77,
\* 95/104, 117/126)
Manager(n, depot, cl) ==
    IF Mode(depot, cl) = "Closed"
    THEN [size |-> n, start |-> depot[1], end |-> depot[1], skip |-> {}]
    ELSE IF Mode(depot, cl) = "FixedStart"
    THEN [size |-> n + 1, start |-> depot[1], end |-> n, skip |-> {n}]
    ELSE [size |-> n + 1, start |-> n, end |-> n, skip |-> {n}]

----------------------------------------------------------------------------
(* _solve_and_extract *)

\* What routing.SolveWithParameters can hand back for a manager: no solution,
\* or an assignment in which the vehicle leaves the start node, visits every
\* other node once and arrives at the end node.  The tour is written as the
\* nodes met by the walk of lines 154-159, which stops at the end index.
Solutions(mgr) ==
    {<<>>} \cup
    {<< <<mgr.start>> \o p >> : p \in Perms(Range(mgr.size) \ {mgr.start, mgr.end})}

\* FallbackRoute without the skip_nodes filter
FallbackRouteNoSkip(num_nodes, skip_nodes) == RangeSeq(num_nodes)

\* line 151: [i for i in range(num_nodes) if i not in skip_nodes]
FallbackRoute(num_nodes, skip_nodes) ==
    LET keep(i) == i \notin skip_nodes
    IN  SelectSeq(RangeSeq(num_nodes), keep)

\* lines 153-161: the walk from Start to End, dropping skip_nodes
WalkRoute(tour, skip_nodes) ==
    LET keep(i) == i \notin skip_nodes
    IN  SelectSeq(tour, keep)

\* lines 149-161
ExtractRoute(sol, num_nodes, skip_nodes) ==
    IF sol = <<>> THEN FallbackRoute(num_nodes, skip_nodes)
    ELSE WalkRoute(sol[1], skip_nodes)

----------------------------------------------------------------------------
(* solve_tsp as a state machine *)

n_real == Cardinality(DOMAIN distance_matrix)

RevenueLists(n) == [1..n -> RevenueVals]

DepotChoices(n) == {<<>>} \cup {<<d>> : d \in Range(n)}

\* solve_tsp is not running
SolverIdle ==
    /\ s_pc = "idle"
    /\ distance_matrix = <<>>
    /\ revenues = <<>>
    /\ revenue_weight = 0
    /\ depot_idx = <<>>
    /\ closed = FALSE
    /\ int_matrix = <<>>
    /\ routing = [size |-> 0, start |-> 0, end |-> 0, skip |-> {}]
    /\ solution = <<>>
    /\ route = <<>>

\* compute_distance_matrix is not running
DistanceIdle ==
    /\ d_pc = "idle"
    /\ coords = <<>>
    /\ use_roads = FALSE
    /\ max_coords = 0
    /\ chunk_size = 0
    /\ service = <<>>
    /\ matrix = <<>>
    /\ pair = <<0, 0>>
    /\ requests = <<>>
    /\ result = <<>>

\* optimize_route is not running
StreamIdle ==
    /\ p_pc = "idle"
    /\ journey_mode = "continue"
    /\ start_address = FALSE
    /\ has_coords = FALSE
    /\ n_rows = 0
    /\ prioritize_revenue = FALSE
    /\ stores_per_day = 0
    /\ all_revenues = <<>>
    /\ base_coords = <<>>
    /\ geocoded = <<>>
    /\ valid_indices = <<>>
    /\ stream_coords = <<>>
    /\ stream_depot_idx = <<>>
    /\ dist_matrix = <<>>
    /\ stores_response = <<>>
    /\ summary = <<>>
    /\ events = <<>>

\* the runs of the geocoder
Runs == {1, 2}

\* no geocoding run is under way
GeocodeIdle ==
    /\ cache_file = <<>>
    /\ g_pc = [r \in Runs |-> "idle"]
    /\ g_cache = [r \in Runs |-> <<>>]
    /\ g_addresses = [r \in Runs |-> <<>>]
    /\ g_i = [r \in Runs |-> 0]
    /\ g_q = [r \in Runs |-> 0]
    /\ g_tried = [r \in Runs |-> <<>>]
    /\ g_before = [r \in Runs |-> <<>>]
    /\ g_calls = [r \in Runs |-> <<>>]
    /\ g_order = <<>>

\* a weight list whose length is not n (line 49 then ignores it)
MisalignedRevenues(n) == [k \in 1..(n + 1) |-> k % 3]

\* The calls of solve_tsp: every mode, every depot, with and without weights.
SolverInit ==
    /\ s_pc = "call"
    /\ \E n \in 2..MaxN :
            /\ distance_matrix \in InputMatrices(n, DistVals)
            /\ revenues \in {<<>>} \cup {<<r>> : r \in RevenueLists(n)}
                               \cup {<<MisalignedRevenues(n)>>}
            /\ depot_idx \in DepotChoices(n)
    /\ revenue_weight \in WeightVals
    /\ closed \in BOOLEAN
    /\ int_matrix = <<>>
    /\ routing = [size |-> 0, start |-> 0, end |-> 0, skip |-> {}]
    /\ solution = <<>>
    /\ route = <<>>
    /\ DistanceIdle
    /\ StreamIdle
    /\ GeocodeIdle

\* The call does not reach _solve_and_extract: a row of the array is
\* shorter than n, so cost_matrix[:, j] (line 57) or cost_matrix[i][j] (lines
\* 66, 89, 115) raises IndexError; or the depot is none of the manager's
\* nodes, which RoutingIndexManager (lines 68, 95) does not accept.
BuildRaises(dm, n, depot, cl) ==
    \/ \E i \in DOMAIN dm : \E j \in Range(n) : j \notin DOMAIN dm[i]
    \/ depot # <<>> /\ depot[1] \notin Range(Manager(n, depot, cl).size)

\* BuildModel with cost_matrix an alias of distance_matrix (line 47 without
\* the copy): the penalties of line 57 land in the caller's array
BuildModelAliased ==
    /\ s_pc = "call"
    /\ IF BuildRaises(distance_matrix, n_real, depot_idx, closed)
       THEN s_pc' = "raised" /\ UNCHANGED <<distance_matrix, int_matrix, routing>>
       ELSE /\ int_matrix' = IntMatrix(distance_matrix, n_real, revenues,
                                       revenue_weight, depot_idx, closed)
            /\ distance_matrix' =
                  [i \in DOMAIN distance_matrix |-> [j \in DOMAIN distance_matrix[i] |->
                      IF j < n_real
                      THEN ScaledCost(distance_matrix, n_real, revenues,
                                      revenue_weight, i, j)[1]
                      ELSE distance_matrix[i][j]]]
            /\ routing' = Manager(n_real, depot_idx, closed)
            /\ s_pc' = "built"
    /\ UNCHANGED <<revenues, revenue_weight, depot_idx, closed,
                   solution, route, distance_vars, stream_vars, geocode_vars>>

\* lines 44-126 up to the call of _solve_and_extract: the cost matrix, the
\* integer matrix, the manager and the registered callback
BuildModel ==
    /\ s_pc = "call"
    /\ IF BuildRaises(distance_matrix, n_real, depot_idx, closed)
       THEN s_pc' = "raised" /\ UNCHANGED <<int_matrix, routing>>
       ELSE /\ int_matrix' = IntMatrix(distance_matrix, n_real, revenues,
                                       revenue_weight, depot_idx, closed)
            /\ routing' = Manager(n_real, depot_idx, closed)
            /\ s_pc' = "built"
    /\ UNCHANGED <<distance_matrix, revenues, revenue_weight, depot_idx, closed,
                   solution, route, distance_vars, stream_vars, geocode_vars>>

\* line 147: the search engine answers
SolveWithParameters ==
    /\ s_pc = "built"
    /\ solution' \in Solutions(routing)
    /\ s_pc' = "searched"
    /\ UNCHANGED <<distance_matrix, revenues, revenue_weight, depot_idx, closed,
                   int_matrix, routing, route, distance_vars, stream_vars, geocode_vars>>

\* lines 149-161 and the return of solve_tsp
Extract ==
    /\ s_pc = "searched"
    /\ route' = ExtractRoute(solution, routing.size, routing.skip)
    /\ s_pc' = "returned"
    /\ UNCHANGED <<distance_matrix, revenues, revenue_weight, depot_idx, closed,
                   int_matrix, routing, solution, distance_vars, stream_vars, geocode_vars>>

SolverNext == BuildModel \/ SolveWithParameters \/ Extract

SolverSpec == SolverInit /\ [][SolverNext]_vars

\* The calls of solve_tsp with a single real node: a 1 x 1 matrix, every
\* mode, with and without weights.  solve_tsp tests neither n nor depot_idx
\* (lines 44-61), so these calls run the same code as the others.
SingleNodeInit ==
    /\ s_pc = "call"
    /\ distance_matrix = [i \in Range(1) |-> [j \in Range(1) |-> 0]]
    /\ revenues \in {<<>>} \cup {<<r>> : r \in RevenueLists(1)}
                       \cup {<<MisalignedRevenues(1)>>}
    /\ depot_idx \in DepotChoices(1)
    /\ revenue_weight \in WeightVals
    /\ closed \in BOOLEAN
    /\ int_matrix = <<>>
    /\ routing = [size |-> 0, start |-> 0, end |-> 0, skip |-> {}]
    /\ solution = <<>>
    /\ route = <<>>
    /\ DistanceIdle
    /\ StreamIdle
    /\ GeocodeIdle

SingleNodeSpec == SingleNodeInit /\ [][SolverNext]_vars

----------------------------------------------------------------------------
(* Properties of solve_tsp *)

Returned == s_pc = "returned"

\* C1: in every mode, whether or not the search found a solution, the
\* returned route has n entries and holds every real index 0..n-1, hence each
\* exactly once and never the synthetic index n.
C1_RouteIsPermutation ==
    Returned => /\ Len(route) = n_real
                /\ SeqSet(route) = Range(n_real)

\* C1 witness: a three-node Continue call whose search found a tour that does
\* not start at node 0, the dummy depot dropped.
C1_Witness ==
    /\ Returned
    /\ Mode(depot_idx, closed) = "Continue"
    /\ n_real = 3
    /\ solution # <<>>
    /\ solution[1][1] = 3
    /\ route = <<2, 0, 1>>

\* C2 as claimed: with a depot given, the route starts at the depot and the
\* depot appears nowhere else.
C2_DepotFirstOnly ==
    (Returned /\ depot_idx # <<>>) =>
        /\ route[1] = depot_idx[1]
        /\ \A k \in 2..Len(route) : route[k] # depot_idx[1]

\* C2, the part the code keeps: when the search found a solution the route
\* starts at the depot and the depot appears nowhere else.
C2_DepotFirstWhenSolved ==
    (Returned /\ depot_idx # <<>> /\ solution # <<>>) =>
        /\ route[1] = depot_idx[1]
        /\ \A k \in 2..Len(route) : route[k] # depot_idx[1]

\* C3 as claimed: without a solution the route is the real nodes in input
\* order, and a fixed depot is its first element.
C3_FallbackDepotFirst ==
    (Returned /\ solution = <<>>) =>
        /\ route = RangeSeq(n_real)
        /\ depot_idx # <<>> => route[1] = depot_idx[1]

\* C3, the part the code keeps: without a solution the route is the real
\* nodes in input order, the synthetic node removed.
C3_FallbackInputOrder ==
    (Returned /\ solution = <<>>) => route = RangeSeq(n_real)

\* C10: with revenue_weight = 0 the integer arc costs handed to the search
\* engine are those of a call with revenues = None, and so is the manager.
C10_ZeroWeightIgnoresRevenues ==
    (s_pc # "call" /\ revenue_weight = 0) =>
        /\ int_matrix = IntMatrix(distance_matrix, n_real, <<>>, revenue_weight,
                                  depot_idx, closed)
        /\ routing = Manager(n_real, depot_idx, closed)

\* C10 witness: a call with weight 0 and unequal revenues has been solved.
C10_Witness ==
    /\ Returned
    /\ revenue_weight = 0
    /\ revenues = << <<2, 0>> >>
    /\ distance_matrix[0][1] = 1500
    /\ int_matrix[0][1] = <<1500, 0>>

\* the bias block of lines 50-57 ran: weights given, aligned, weight > 0 and
\* a positive maximum
Biased ==
    /\ s_pc # "call"
    /\ BiasApplies(n_real, revenues, revenue_weight)
    /\ SetMax(SeqSet(revenues[1])) > 0

\* the penalty of column j as the built matrix shows it in row 0: the
\* integer cost less the distance, in millimetres as an Int64
PenaltyOf(j) == <<int_matrix[0][j][1] - distance_matrix[0][j], int_matrix[0][j][2]>>

\* revenue_weight * max(distance_matrix) in millimetres, as an Int64
PenaltyBound ==
    LET md == MatMax(distance_matrix, n_real)
        q  == md \div WeightDen
        r  == md % WeightDen
    IN  <<q * revenue_weight + ((r * revenue_weight) \div WeightDen),
          (((r * revenue_weight) % WeightDen) * scale) \div WeightDen>>

Int64LessEq(a, b) == a = b \/ Int64Less(a, b)

\* C11: when the bias is applied (non-negative weights with a positive
\* maximum, revenue_weight in [0, 1]) the penalty of a column is the same in
\* every row, is not negative, is at most revenue_weight * max(distance
\* matrix), is 0 for a node of maximum weight and does not grow with the
\* node's weight; so every biased cost is at least the distance.  Stated of
\* the matrix as BuildModel leaves it; no later step writes it.
C11_PenaltyMonotoneBounded ==
    (Biased /\ s_pc = "built") =>
        LET rev     == revenues[1]
            max_rev == SetMax(SeqSet(rev))
            bound   == PenaltyBound
            pen     == [j \in Range(n_real) |-> PenaltyOf(j)]
        IN  \A j \in Range(n_real) :
                /\ \A i \in Range(n_real) :
                      /\ int_matrix[i][j] = <<distance_matrix[i][j] + pen[j][1],
                                              pen[j][2]>>
                      /\ Int64LessEq(<<distance_matrix[i][j], 0>>, int_matrix[i][j])
                /\ Int64LessEq(Int64(0), pen[j])
                /\ pen[j][2] \in 0..(scale - 1)
                /\ Int64LessEq(pen[j], bound)
                /\ rev[j + 1] = max_rev => pen[j] = Int64(0)
                /\ \A k \in Range(n_real) :
                      rev[j + 1] <= rev[k + 1] => Int64LessEq(pen[k], pen[j])

\* C11 witness: weights 0, 1, 2 with revenue_weight 0.3 and a largest
\* distance of 1500 m: penalties of 450 m, 225 m and 0 m.
C11_Witness ==
    /\ Biased /\ s_pc = "built"
    /\ revenues = << <<0, 1, 2>> >>
    /\ revenue_weight = 3
    /\ MatMax(distance_matrix, n_real) = 1500
    /\ PenaltyOf(0) = <<450, 0>>
    /\ PenaltyOf(1) = <<225, 0>>
    /\ PenaltyOf(2) = <<0, 0>>

Int64Add(a, b) == <<a[1] + b[1] + ((a[2] + b[2]) \div scale), (a[2] + b[2]) % scale>>

RECURSIVE LegSum(_, _, _)
\* the legs r[k] -> r[k+1], ..., r[Len(r)-1] -> r[Len(r)] of dm summed, as
\* an Int64 of metres
LegSum(r, dm, k) ==
    IF k >= Len(r) THEN Int64(0)
    ELSE Int64Add(Int64(dm[r[k]][r[k + 1]]), LegSum(r, dm, k + 1))

\* the cost of r as a cycle: its legs and the closing leg from its last
\* node back to the depot
CycleCost(r, dm, depot) == Int64Add(LegSum(r, dm, 1), Int64(dm[r[Len(r)]][depot]))

\* the tour that starts at the depot and visits the other nodes in input order
NaiveTour(n, depot) ==
    LET other(i) == i # depot
    IN  <<depot>> \o SelectSeq(RangeSeq(n), other)

\* C12 as claimed: in Closed mode without bias the returned route starts at
\* the depot, and its cycle cost over the distance matrix is at most that of
\* the tour from the depot through the other nodes in input order.
C12_ClosedNoWorseThanNaive ==
    (Returned /\ Mode(depot_idx, closed) = "Closed" /\ ~Biased) =>
        /\ route[1] = depot_idx[1]
        /\ Int64LessEq(CycleCost(route, distance_matrix, depot_idx[1]),
                       CycleCost(NaiveTour(n_real, depot_idx[1]), distance_matrix,
                                 depot_idx[1]))

\* C12, the part the code keeps: a Closed route walked from a found solution
\* starts at the depot and is a tour of all the nodes.
C12_ClosedSolvedStartsAtDepot ==
    (Returned /\ Mode(depot_idx, closed) = "Closed" /\ solution # <<>>) =>
        /\ route[1] = depot_idx[1]
        /\ SeqSet(route) = Range(n_real)
        /\ route = solution[1]

\* the search engine has been invoked: line 147 has run
EngineInvoked == s_pc \in {"searched", "returned"}

\* C13 as claimed, for solve_tsp called directly: on a call with fewer than
\* 2 real nodes, or with a depot index outside [0, N), the search engine is
\* never invoked.
C13_InfeasibleNeverSolved ==
    (\/ n_real < 2
     \/ (depot_idx # <<>> /\ depot_idx[1] \notin Range(n_real)))
        => ~EngineInvoked

\* C15 as claimed: in FixedStart mode every arc from the dummy end node to a
\* real node costs 999_999_999, strictly more than the integer cost of every
\* arc between real nodes, and every arc from a real node to the dummy end
\* node costs 0.
C15_TerminalArcsDominate ==
    (s_pc \in {"built", "searched", "returned"}
        /\ Mode(depot_idx, closed) = "FixedStart") =>
        \A i \in Range(n_real), j \in Range(n_real) :
            /\ int_matrix[n_real][j] = Int64(DUMMY_END_COST)
            /\ int_matrix[i][n_real] = Int64(0)
            /\ Int64Less(int_matrix[i][j], int_matrix[n_real][j])

\* C15, the part the code keeps: the arcs leaving the dummy end node cost
\* 999_999_999, the arcs entering it cost 0, and the arcs between real nodes
\* are the scaled costs, which exceed 999_999_999 only where the cost is
\* 999_999.999 m or more.
C15_TerminalArcsAsBuilt ==
    (s_pc \in {"built", "searched", "returned"}
        /\ Mode(depot_idx, closed) = "FixedStart") =>
        \A i \in Range(n_real), j \in Range(n_real) :
            /\ int_matrix[n_real][j] = Int64(DUMMY_END_COST)
            /\ int_matrix[i][n_real] = Int64(0)
            /\ int_matrix[n_real][n_real] = Int64(0)
            /\ (int_matrix[i][j][1] < DUMMY_END_COST \div scale)
                  => Int64Less(int_matrix[i][j], int_matrix[n_real][j])

----------------------------------------------------------------------------
(* distance.py: constants and values *)

\* distance.py line 20
EARTH_RADIUS_M == 6371000
\* distance.py line 22
OSRM_MAX_COORDS == 100
\* distance.py line 23
CHUNK_SIZE == 50

\* largest point list enumerated in full (besides the lists at the real cap)
MaxPoints == 4
\* largest lowered OSRM_MAX_COORDS
MaxLowCap == 2
\* largest lowered CHUNK_SIZE
MaxLowChunk == 2

\* A point is a whole number p: the place at latitude p / StepsPerRadian
\* radians on one meridian, so the points are 1000 m apart.
StepsPerRadian == 6371

\* A float64 is a whole number or NaN; a JSON value is a whole number, null
\* or a string.  The three markers lie below every number used.
NaN == -2000000001
JSON_NULL == -2000000002
JSON_STRING == -2000000003

Abs(x) == IF x < 0 THEN -x ELSE x

\* _haversine_matrix: for two points on one meridian the haversine formula
\* 2 R arcsin(sqrt(sin^2(dlat / 2))) is R * |dlat|.
HaversineMatrix(cs) ==
    [i \in Range(Len(cs)) |-> [j \in Range(Len(cs)) |->
        (EARTH_RADIUS_M \div StepsPerRadian) * Abs(cs[i + 1] - cs[j + 1])]]

\* the road distance the mocked service knows from point p to point q:
\* directed, and different for different ordered pairs
RoadDistance(p, q) == IF p = q THEN 0 ELSE 1000000 + 1000 * p + q

\* the cell the service answers for origin p and destination q: null and a
\* negative number both stand for "no route"
ServiceCell(svc, p, q) ==
    IF <<p, q>> \in svc.null THEN JSON_NULL
    ELSE IF <<p, q>> \in svc.negative THEN -1
    ELSE RoadDistance(p, q)

----------------------------------------------------------------------------
(* _osrm_table_request *)

\* lines 66-81: the URL.  sources and destinations are left out when they
\* cover all the coordinates.
TableUrl(sub_coords, sources, destinations) ==
    [coords       |-> sub_coords,
     sources      |-> IF sources = RangeSeq(Len(sub_coords)) THEN <<>> ELSE <<sources>>,
     destinations |-> IF destinations = RangeSeq(Len(sub_coords)) THEN <<>>
                      ELSE <<destinations>>]

\* the table service: one row per source, one column per destination, all
\* coordinates when the parameter is absent
UrlRows(url) ==
    IF url.sources = <<>> THEN RangeSeq(Len(url.coords)) ELSE url.sources[1]

UrlCols(url) ==
    IF url.destinations = <<>> THEN RangeSeq(Len(url.coords)) ELSE url.destinations[1]

ServiceTable(svc, sub_coords, rows, cols) ==
    [r \in 1..Len(rows) |-> [c \in 1..Len(cols) |->
        ServiceCell(svc, sub_coords[rows[r] + 1], sub_coords[cols[c] + 1])]]

\* what can come back for a request
FailureKinds == {"network_error", "http_error", "bad_json", "code_not_ok", "no_distances"}
MalformedKinds == {"short_rows", "short_cols", "ragged", "non_numeric"}
ResponseKinds == {"ok"} \cup FailureKinds \cup MalformedKinds

DropLast(sq) == SubSeq(sq, 1, Len(sq) - 1)

\* the "distances" field of a payload that has one
Payload(kind, table) ==
    IF kind = "short_rows" THEN DropLast(table)
    ELSE IF kind = "short_cols" THEN [r \in 1..Len(table) |-> DropLast(table[r])]
    ELSE IF kind = "ragged"
    THEN [r \in 1..Len(table) |-> IF r = Len(table) THEN DropLast(table[r]) ELSE table[r]]
    ELSE IF kind = "non_numeric"
    THEN [r \in 1..Len(table) |-> [c \in 1..Len(table[r]) |->
            IF r = 1 /\ c = 1 THEN JSON_STRING ELSE table[r][c]]]
    ELSE table

\* lines 83-93: None (<<>>) when the request raised, the status was an
\* error, the body was no JSON object, code was not "Ok" or "distances" was
\* missing or null; data["distances"] otherwise, whatever it holds
TableRequest(svc, kind, sub_coords, sources, destinations) ==
    IF kind \in FailureKinds THEN <<>>
    ELSE CHOOSE d \in {<<Payload(kind, t)>> :
                t \in {ServiceTable(svc, sub_coords, UrlRows(url), UrlCols(url)) :
                    url \in {TableUrl(sub_coords, sources, destinations)}}} : TRUE

----------------------------------------------------------------------------
(* _osrm_full_matrix *)

\* np.array(distances, dtype=np.float64): <<>> for the ValueError numpy raises
\* on rows of unequal length or a string cell, else <<array>> with None as NaN
NpArray(distances) ==
    IF \/ \E r \in 1..Len(distances) : \E c \in 1..Len(distances[r]) :
              distances[r][c] = JSON_STRING
       \/ \E r \in 1..Len(distances) : Len(distances[r]) # Len(distances[1])
    THEN <<>>
    ELSE << [i \in Range(Len(distances)) |-> [j \in Range(Len(distances[1])) |->
               IF distances[i + 1][j + 1] = JSON_NULL THEN NaN
               ELSE distances[i + 1][j + 1]]] >>

\* np.where without the replacement
NpWhereKeep(m) == m

\* line 115: np.where(np.isnan(matrix) | (matrix < 0), 1e9, matrix)
NpWhere(m) ==
    [i \in DOMAIN m |-> [j \in DOMAIN m[i] |->
        IF m[i][j] = NaN \/ m[i][j] < 0 THEN UNREACHABLE ELSE m[i][j]]]

\* line 142: val if val is not None and val >= 0 else 1e9
CellValue(val) == IF val # JSON_NULL /\ val >= 0 THEN val ELSE UNREACHABLE

\* NumChunks rounded down: the last, shorter chunk is left out
NumChunksFloor(n, size) == n \div size

\* line 120: len(chunks), the length of range(0, n, CHUNK_SIZE)
NumChunks(n, size) == (n + size - 1) \div size

\* Chunk with the end of a chunk one too far: min(i + CHUNK_SIZE + 1, n)
ChunkOneTooLong(n, size, k) ==
    [x \in 1..((IF k * size + 1 < n THEN k * size + 1 ELSE n) - (k - 1) * size) |->
        (k - 1) * size + x - 1]

\* line 120: chunks[k - 1] = list(range(i, min(i + CHUNK_SIZE, n))) for the
\* k-th i of range(0, n, CHUNK_SIZE)
Chunk(n, size, k) ==
    [x \in 1..((IF k * size < n THEN k * size ELSE n) - (k - 1) * size) |->
        (k - 1) * size + x - 1]

\* line 128: list(dict.fromkeys(l)), the first occurrences in order (by
\* halves: the first half's, then those of the second half not among them)
Dedupe(l) ==
    LET RECURSIVE D(_, _)
        D(lo, hi) ==
            IF lo > hi THEN <<>>
            ELSE IF lo = hi THEN <<l[lo]>>
            ELSE LET mid   == (lo + hi) \div 2
                     first == D(lo, mid)
                     seen  == SeqSet(first)
                     new(x) == x \notin seen
                 IN  first \o SelectSeq(D(mid + 1, hi), new)
    IN  D(1, Len(l))

\* line 129: global_to_local[g]
LocalIndex(combined_indices, g) ==
    (CHOOSE l \in 1..Len(combined_indices) : combined_indices[l] = g) - 1

\* SubRequestArgs with sources and destinations exchanged
SubRequestArgsSwapped(cs, src_chunk, dst_chunk) ==
    CHOOSE args \in
        {[sub_coords    |-> [l \in 1..Len(combined_indices) |-> cs[combined_indices[l] + 1]],
          local_sources |-> [c \in 1..Len(dst_chunk) |->
                                LocalIndex(combined_indices, dst_chunk[c])],
          local_dests   |-> [r \in 1..Len(src_chunk) |->
                                LocalIndex(combined_indices, src_chunk[r])]] :
            combined_indices \in {Dedupe(src_chunk \o dst_chunk)}} : TRUE

\* lines 128-135: the sub-request of a chunk pair
SubRequestArgs(cs, src_chunk, dst_chunk) ==
    CHOOSE args \in
        {[sub_coords    |-> [l \in 1..Len(combined_indices) |-> cs[combined_indices[l] + 1]],
          local_sources |-> [r \in 1..Len(src_chunk) |->
                                LocalIndex(combined_indices, src_chunk[r])],
          local_dests   |-> [c \in 1..Len(dst_chunk) |->
                                LocalIndex(combined_indices, dst_chunk[c])]] :
            combined_indices \in {Dedupe(src_chunk \o dst_chunk)}} : TRUE

\* Lines 139-142 stop at the first read distances[r][c] that raises: an
\* IndexError on a missing row or cell, a TypeError on comparing a string
\* with 0.  The number of cells written before it, row by row; R * C when
\* no read raises.
CellsWritten(distances, R, C) ==
    LET bad == {(rc[1] - 1) * C + (rc[2] - 1) : rc \in
                 {rc \in (1..R) \X (1..C) :
                     \/ rc[1] > Len(distances)
                     \/ rc[2] > Len(distances[rc[1]])
                     \/ distances[rc[1]][rc[2]] = JSON_STRING}}
    IN  IF bad = {} THEN R * C ELSE CHOOSE b \in bad : \A b2 \in bad : b <= b2

\* Lines 139-142: the matrix after the first `written` writes of a
\* sub-response.  A chunk is list(range(a, b)), so global index g sits at
\* position g - a of it.
WriteCells(m, distances, src_chunk, dst_chunk, written) ==
    [i \in DOMAIN m |-> [j \in DOMAIN m[i] |->
        IF /\ i >= src_chunk[1] /\ i < src_chunk[1] + Len(src_chunk)
           /\ j >= dst_chunk[1] /\ j < dst_chunk[1] + Len(dst_chunk)
           /\ (i - src_chunk[1]) * Len(dst_chunk) + (j - dst_chunk[1]) < written
        THEN CellValue(distances[i - src_chunk[1] + 1][j - dst_chunk[1] + 1])
        ELSE m[i][j]]]

----------------------------------------------------------------------------
(* compute_distance_matrix as a state machine *)

n_points == Len(coords)

\* the point lists: all different, or every point listed twice
CoordLists(n) ==
    {[i \in 1..n |-> i - 1]} \cup
    (IF n <= MaxPoints THEN {[i \in 1..n |-> (i - 1) \div 2]} ELSE {})

\* the services: every pair routed, or one pair without a route, answered
\* as null or as a negative number; the pair is first-to-last or last-to-last
Services(cs) ==
    LET holes == {<<cs[1], cs[Len(cs)]>>, <<cs[Len(cs)], cs[Len(cs)]>>}
    IN  {[null |-> {}, negative |-> {}]}
        \cup {[null |-> {h}, negative |-> {}] : h \in holes}
        \cup {[null |-> {}, negative |-> {h}] : h \in holes}

\* The calls: with the module's constants, lists up to MaxPoints and the
\* lists at and just over the cap; with the constants lowered, lists up to
\* MaxPoints.
DistanceInit ==
    /\ d_pc = "call"
    /\ \/ /\ max_coords = OSRM_MAX_COORDS
          /\ chunk_size = CHUNK_SIZE
          /\ \E n \in (1..MaxPoints) \cup {OSRM_MAX_COORDS, OSRM_MAX_COORDS + 1} :
                coords \in CoordLists(n)
       \/ /\ max_coords \in 1..MaxLowCap
          /\ chunk_size \in 1..MaxLowChunk
          /\ \E n \in 1..MaxPoints : coords \in CoordLists(n)
    /\ use_roads \in BOOLEAN
    /\ service \in Services(coords)
    /\ matrix = <<>>
    /\ pair = <<0, 0>>
    /\ requests = <<>>
    /\ result = <<>>
    /\ SolverIdle
    /\ StreamIdle
    /\ GeocodeIdle

\* EnterPath without the test of use_roads
EnterPathIgnoringFlag ==
    /\ d_pc = "call"
    /\ IF n_points <= max_coords
       THEN d_pc' = "single" /\ UNCHANGED <<matrix, pair>>
       ELSE /\ d_pc' = "chunked"
            /\ matrix' = [i \in Range(n_points) |-> [j \in Range(n_points) |-> 0]]
            /\ pair' = <<1, 1>>
    /\ UNCHANGED <<coords, use_roads, max_coords, chunk_size, service, requests,
                   result, solver_vars, stream_vars, geocode_vars>>

\* lines 165-167 and 104-124: the choice of path
EnterPath ==
    /\ d_pc = "call"
    /\ IF ~use_roads THEN d_pc' = "fallback" /\ UNCHANGED <<matrix, pair>>
       ELSE IF n_points <= max_coords
       THEN d_pc' = "single" /\ UNCHANGED <<matrix, pair>>
       ELSE /\ d_pc' = "chunked"
            /\ matrix' = [i \in Range(n_points) |-> [j \in Range(n_points) |-> 0]]
            /\ pair' = <<1, 1>>
    /\ UNCHANGED <<coords, use_roads, max_coords, chunk_size, service, requests,
                   result, solver_vars, stream_vars, geocode_vars>>

\* lines 107-116: the single request and what is made of its answer
SingleRequest ==
    /\ d_pc = "single"
    /\ \E kind \in ResponseKinds :
       \E distances \in {TableRequest(service, kind, coords, RangeSeq(n_points),
                                      RangeSeq(n_points))} :
       \E arr \in {IF distances = <<>> THEN <<>> ELSE NpArray(distances[1])} :
         /\ requests' = Append(requests,
                [ncoords |-> n_points, kind |-> kind, none |-> distances = <<>>,
                 pair |-> <<0, 0>>, nsrc |-> n_points, ndst |-> n_points,
                 written |-> 0])
         /\ IF distances = <<>> THEN d_pc' = "fallback" /\ UNCHANGED <<matrix, result>>
            ELSE IF arr = <<>> THEN d_pc' = "raised" /\ UNCHANGED <<matrix, result>>
            ELSE /\ matrix' = NpWhere(arr[1])
                 /\ result' = matrix'
                 /\ d_pc' = "returned"
    /\ UNCHANGED <<coords, use_roads, max_coords, chunk_size, service, pair, solver_vars, stream_vars, geocode_vars>>

\* lines 126-142: one pass of the inner loop, the sub-request of a chunk pair
SubRequest ==
    /\ d_pc = "chunked"
    /\ pair[1] <= NumChunks(n_points, chunk_size)
    /\ \E kind \in ResponseKinds :
       \E src_chunk \in {Chunk(n_points, chunk_size, pair[1])},
          dst_chunk \in {Chunk(n_points, chunk_size, pair[2])} :
       \E args \in {SubRequestArgs(coords, src_chunk, dst_chunk)} :
       \E distances \in {TableRequest(service, kind, args.sub_coords,
                                      args.local_sources, args.local_dests)} :
       \E written \in {IF distances = <<>> THEN 0
                       ELSE CellsWritten(distances[1], Len(src_chunk), Len(dst_chunk))} :
         /\ requests' = Append(requests,
                [ncoords |-> Len(args.sub_coords), kind |-> kind,
                 none |-> distances = <<>>, pair |-> pair,
                 nsrc |-> Len(src_chunk), ndst |-> Len(dst_chunk),
                 written |-> written])
         /\ IF distances = <<>> THEN d_pc' = "fallback" /\ UNCHANGED <<matrix, pair>>
            ELSE /\ matrix' = WriteCells(matrix, distances[1], src_chunk, dst_chunk, written)
                 /\ IF written < Len(src_chunk) * Len(dst_chunk)
                    THEN d_pc' = "raised" /\ UNCHANGED pair
                    ELSE /\ d_pc' = "chunked"
                         /\ pair' = IF pair[2] < NumChunks(n_points, chunk_size)
                                    THEN <<pair[1], pair[2] + 1>>
                                    ELSE <<pair[1] + 1, 1>>
    /\ UNCHANGED <<coords, use_roads, max_coords, chunk_size, service, result,
                   solver_vars, stream_vars, geocode_vars>>

\* lines 144 and 168-170: every chunk pair is done, the matrix is returned
ReturnChunked ==
    /\ d_pc = "chunked"
    /\ pair[1] > NumChunks(n_points, chunk_size)
    /\ result' = matrix
    /\ d_pc' = "returned"
    /\ UNCHANGED <<coords, use_roads, max_coords, chunk_size, service, matrix, pair,
                   requests, solver_vars, stream_vars, geocode_vars>>

\* lines 171-173: the great-circle matrix
Fallback ==
    /\ d_pc = "fallback"
    /\ result' = HaversineMatrix(coords)
    /\ d_pc' = "returned"
    /\ UNCHANGED <<coords, use_roads, max_coords, chunk_size, service, matrix, pair,
                   requests, solver_vars, stream_vars, geocode_vars>>

DistanceNext == EnterPath \/ SingleRequest \/ SubRequest \/ ReturnChunked \/ Fallback

DistanceSpec == DistanceInit /\ [][DistanceNext]_vars

----------------------------------------------------------------------------
(* main.py: optimize_route._stream *)

\* largest number of CSV rows
MaxRows == 3

\* the values of stores_per_day: 0 and the default
StoresPerDayVals == {0, 20}

JourneyModes == {"continue", "same_start", "round_trip"}

\* line 226
needs_base == journey_mode \in {"same_start", "round_trip"}

\* the NDJSON line of lines 248, 269, 285, 298, 307, 323, 445
Event(type, stage) == [type |-> type, stage |-> stage]

\* the revenue column of a CSV of n rows (lines 208-211)
RowRevenues(n) == [i \in 1..n |-> i % 3]

\* the place row i (0-based) geocodes to, and the place of the start address
StorePoint(i) == i
BasePoint == n_rows

\* The requests that reach the generator: the CSV has rows (line 189), a
\* base mode has a start address (line 227), and prioritising has a revenue
\* column (line 212).
StreamInit ==
    /\ p_pc = "base"
    /\ journey_mode \in JourneyModes
    /\ start_address \in BOOLEAN
    /\ needs_base => start_address
    /\ has_coords \in BOOLEAN
    /\ n_rows \in 1..MaxRows
    /\ prioritize_revenue \in BOOLEAN
    /\ stores_per_day \in StoresPerDayVals
    /\ all_revenues \in {<<>>, RowRevenues(n_rows)}
    /\ prioritize_revenue => all_revenues # <<>>
    /\ base_coords = <<>>
    /\ geocoded = <<>>
    /\ valid_indices = <<>>
    /\ stream_coords = <<>>
    /\ stream_depot_idx = <<>>
    /\ dist_matrix = <<>>
    /\ stores_response = <<>>
    /\ summary = <<>>
    /\ events = <<>>
    /\ SolverIdle
    /\ DistanceIdle
    /\ GeocodeIdle

\* lines 241-253: the start address is geocoded when the mode needs a base
GeocodeBase ==
    /\ p_pc = "base"
    /\ IF needs_base /\ start_address
       THEN \E status \in {"ok", "failed"} :
              IF status # "ok"
              THEN /\ events' = Append(events, Event("error", ""))
                   /\ p_pc' = "done"
                   /\ UNCHANGED base_coords
              ELSE /\ base_coords' = <<BasePoint>>
                   /\ p_pc' = "geocoding"
                   /\ UNCHANGED events
       ELSE p_pc' = "geocoding" /\ UNCHANGED <<base_coords, events>>
    /\ UNCHANGED <<journey_mode, start_address, has_coords, n_rows,
                   prioritize_revenue, stores_per_day, all_revenues, geocoded,
                   valid_indices, stream_coords, stream_depot_idx, dist_matrix,
                   stores_response, summary, solver_vars, distance_vars, geocode_vars>>

\* lines 256-291: one pass of the geocoding loop.  With lat and lng columns
\* the row is taken as it is, and float() raises on a cell that is no
\* number; without them the item of geocode_addresses_iter is ok or failed.
GeocodeStore ==
    /\ p_pc = "geocoding"
    /\ Len(geocoded) < n_rows
    /\ \E outcome \in (IF has_coords THEN {"ok", "raise"} ELSE {"ok", "failed"}) :
          IF outcome = "raise"
          THEN p_pc' = "crashed" /\ UNCHANGED <<geocoded, events>>
          ELSE /\ geocoded' = Append(geocoded, [status |-> outcome,
                                                point  |-> StorePoint(Len(geocoded))])
               /\ events' = Append(events, Event("progress", "geocoding"))
               /\ UNCHANGED p_pc
    /\ UNCHANGED <<journey_mode, start_address, has_coords, n_rows,
                   prioritize_revenue, stores_per_day, all_revenues, base_coords,
                   valid_indices, stream_coords, stream_depot_idx, dist_matrix,
                   stores_response, summary, solver_vars, distance_vars, geocode_vars>>

\* line 294: [i for i, g in enumerate(geocoded) if g["status"] == "ok"]
ValidIndices(geo) ==
    LET ok(i) == geo[i + 1].status = "ok"
    IN  SelectSeq(RangeSeq(Len(geo)), ok)

\* lines 304 and 316-319: the coordinates of the valid rows, then the base
Coords(geo, valid, base) ==
    [k \in 1..Len(valid) |-> geo[valid[k] + 1].point] \o base

\* lines 294-321: the filter, the routing event and the call of
\* compute_distance_matrix(coords), use_roads left at its default
Filter ==
    /\ p_pc = "geocoding"
    /\ Len(geocoded) = n_rows
    /\ valid_indices' = ValidIndices(geocoded)
    /\ IF Len(valid_indices') < 2
       THEN /\ events' = Append(events, Event("error", ""))
            /\ p_pc' = "done"
            /\ UNCHANGED <<stream_coords, stream_depot_idx, distance_vars>>
       ELSE /\ stream_coords' = Coords(geocoded, valid_indices', base_coords)
            /\ events' = Append(events, Event("progress", "routing"))
            /\ stream_depot_idx' = IF base_coords # <<>>
                                   THEN <<Len(stream_coords') - 1>> ELSE <<>>
            /\ p_pc' = "distance"
            /\ d_pc' = "call"
            /\ coords' = stream_coords'
            /\ use_roads' = TRUE
            /\ max_coords' = OSRM_MAX_COORDS
            /\ chunk_size' = CHUNK_SIZE
            /\ service' \in Services(coords')
            /\ UNCHANGED <<matrix, pair, requests, result>>
    /\ UNCHANGED <<journey_mode, start_address, has_coords, n_rows,
                   prioritize_revenue, stores_per_day, all_revenues, base_coords,
                   geocoded, dist_matrix, stores_response, summary, solver_vars, geocode_vars>>

\* lines 332-337: the weights of the valid rows, 0.0 added for the base
ValidRevenues(prioritize, all_rev, valid, depot) ==
    IF prioritize /\ all_rev # <<>>
    THEN << [k \in 1..Len(valid) |-> all_rev[valid[k] + 1]]
             \o (IF depot # <<>> THEN <<0>> ELSE <<>>) >>
    ELSE <<>>

\* lines 321-347: compute_distance_matrix has returned or raised; the
\* solving event and the call of solve_tsp, revenue_weight left at 0.3
Solve ==
    /\ p_pc = "distance"
    /\ d_pc \in {"returned", "raised"}
    /\ IF d_pc = "raised"
       THEN /\ p_pc' = "crashed"
            /\ UNCHANGED <<dist_matrix, events, solver_vars>>
       ELSE /\ dist_matrix' = result
            /\ events' = Append(events, Event("progress", "solving"))
            /\ p_pc' = "solve"
            /\ s_pc' = "call"
            /\ distance_matrix' = dist_matrix'
            /\ revenues' = ValidRevenues(prioritize_revenue, all_revenues,
                                         valid_indices, stream_depot_idx)
            /\ revenue_weight' = 3
            /\ depot_idx' = stream_depot_idx
            /\ closed' = (journey_mode = "round_trip")
            /\ UNCHANGED <<int_matrix, routing, solution, route>>
    /\ UNCHANGED <<journey_mode, start_address, has_coords, n_rows,
                   prioritize_revenue, stores_per_day, all_revenues, base_coords,
                   geocoded, valid_indices, stream_coords, stream_depot_idx,
                   stores_response, summary, distance_vars, geocode_vars>>

\* line 350: [idx for idx in route_order if idx != depot_idx]
StoreRoute(route_order, depot) ==
    LET store(idx) == depot = <<>> \/ idx # depot[1]
    IN  SelectSeq(route_order, store)

\* lines 353-392: one entry per node of store_route
StoresResponse(store_route, valid) ==
    [rank \in 1..Len(store_route) |->
        [visit_order  |-> rank,
         original_idx |-> valid[store_route[rank] + 1],
         node         |-> store_route[rank]]]

\* A read of lines 355-403 or a division of lines 366 and 419 raises:
\* valid_indices[node_idx], dist_matrix[node_idx][next_node], a division by
\* stores_per_day = 0, or dist_matrix[depot_idx][first_store_node] and
\* dist_matrix[last_store_node][depot_idx].
RespondRaises(store_route, valid, dm, depot, per_day) ==
    \/ \E k \in 1..Len(store_route) : store_route[k] + 1 > Len(valid)
    \/ \E k \in 1..(Len(store_route) - 1) :
          \/ store_route[k] \notin DOMAIN dm
          \/ store_route[k + 1] \notin DOMAIN dm[store_route[k]]
    \/ per_day = 0
    \/ /\ depot # <<>>
       /\ store_route # <<>>
       /\ \/ depot[1] \notin DOMAIN dm
          \/ store_route[1] \notin DOMAIN dm[depot[1]]
          \/ store_route[Len(store_route)] \notin DOMAIN dm
          \/ depot[1] \notin DOMAIN dm[store_route[Len(store_route)]]

\* lines 341-452: solve_tsp has returned or raised; the response is built
\* and the result line yielded
Respond ==
    /\ p_pc = "solve"
    /\ s_pc \in {"returned", "raised"}
    /\ \E store_route \in {StoreRoute(route, stream_depot_idx)} :
          IF \/ s_pc = "raised"
             \/ RespondRaises(store_route, valid_indices, dist_matrix,
                              stream_depot_idx, stores_per_day)
          THEN /\ p_pc' = "crashed"
               /\ UNCHANGED <<stores_response, summary, events>>
          ELSE /\ stores_response' = StoresResponse(store_route, valid_indices)
               /\ summary' = <<[total_stores |-> Len(stores_response')]>>
               /\ events' = Append(events, Event("result", ""))
               /\ p_pc' = "done"
    /\ UNCHANGED <<journey_mode, start_address, has_coords, n_rows,
                   prioritize_revenue, stores_per_day, all_revenues, base_coords,
                   geocoded, valid_indices, stream_coords, stream_depot_idx,
                   dist_matrix, solver_vars, distance_vars, geocode_vars>>

\* With at most MaxRows + 1 points compute_distance_matrix takes the
\* single-request path or the fallback.
StreamNext ==
    \/ GeocodeBase \/ GeocodeStore \/ Filter
    \/ EnterPath \/ SingleRequest \/ Fallback
    \/ Solve
    \/ BuildModel \/ SolveWithParameters \/ Extract
    \/ Respond

StreamSpec == StreamInit /\ [][StreamNext]_vars

----------------------------------------------------------------------------
(* geocoder.py: _geocode_single, geocode_addresses_iter and the cache file *)

\* the number of different queries, and the longest list _build_queries makes
MaxQueries == 2

QueryIds == 1..MaxQueries

\* what _build_queries can return: a list of different queries (line 132
\* drops repeats and empty strings), most specific first
Addresses == UNION {Perms(S) : S \in SUBSET QueryIds}

\* the place Nominatim knows for a query
Location(query) == 100 + query

\* what _geolocator.geocode(query) does: a location, None, or one of the two
\* exceptions line 211 catches
LookupOutcomes == {"location", "none", "timeout", "service_error"}

\* CacheAfter with every answer stored, a location or not
CacheAfterAnyAnswer(cache, query, outcome) ==
    IF outcome \in {"location", "none"}
    THEN [q \in DOMAIN cache \cup {query} |->
            IF q = query THEN Location(query) ELSE cache[q]]
    ELSE cache

\* lines 201-212: the cache dict after the lookup of a query that was not in
\* it; cache[query] is set only when a location came back
CacheAfter(cache, query, outcome) ==
    IF outcome = "location"
    THEN [q \in DOMAIN cache \cup {query} |->
            IF q = query THEN Location(query) ELSE cache[q]]
    ELSE cache

\* the address lists of a run: one address, or an address and a second one
AddressLists == {<<a>> : a \in Addresses} \cup {<<a, b>> : a \in Addresses, b \in Addresses}

\* the file before the runs: missing or empty (both load as {}), or holding
\* query 1
FilesBefore == {<<>>, [q \in {1} |-> Location(1)]}

\* One run of geocode_addresses_iter over one or two addresses.
GeocodeInit ==
    /\ cache_file \in FilesBefore
    /\ g_pc = [r \in Runs |-> IF r = 1 THEN "load" ELSE "idle"]
    /\ g_cache = [r \in Runs |-> <<>>]
    /\ \E l \in AddressLists : g_addresses = [r \in Runs |-> IF r = 1 THEN l ELSE <<>>]
    /\ g_i = [r \in Runs |-> 0]
    /\ g_q = [r \in Runs |-> 0]
    /\ g_tried = [r \in Runs |-> <<>>]
    /\ g_before = [r \in Runs |-> <<>>]
    /\ g_calls = [r \in Runs |-> <<>>]
    /\ g_order = <<>>
    /\ SolverIdle
    /\ DistanceIdle
    /\ StreamIdle

\* Two runs at once, each over one address: two requests whose generators
\* run on different threads.
OverlapInit ==
    /\ cache_file \in FilesBefore
    /\ g_pc = [r \in Runs |-> "load"]
    /\ g_cache = [r \in Runs |-> <<>>]
    /\ g_addresses \in [Runs -> {<<a>> : a \in Addresses}]
    /\ g_i = [r \in Runs |-> 0]
    /\ g_q = [r \in Runs |-> 0]
    /\ g_tried = [r \in Runs |-> <<>>]
    /\ g_before = [r \in Runs |-> <<>>]
    /\ g_calls = [r \in Runs |-> <<>>]
    /\ g_order = <<>>
    /\ SolverIdle
    /\ DistanceIdle
    /\ StreamIdle

\* lines 236-240 (and main.py 244-245): the file is loaded and the first
\* call of _geocode_single starts
LoadCache(r) ==
    /\ g_pc[r] = "load"
    /\ g_cache' = [g_cache EXCEPT ![r] = cache_file]
    /\ g_before' = [g_before EXCEPT ![r] = cache_file]
    /\ g_i' = [g_i EXCEPT ![r] = 1]
    /\ g_q' = [g_q EXCEPT ![r] = 1]
    /\ g_pc' = [g_pc EXCEPT ![r] = "query"]
    /\ g_order' = Append(g_order, <<r, "load">>)
    /\ UNCHANGED <<cache_file, g_addresses, g_tried, g_calls,
                   solver_vars, distance_vars, stream_vars>>

\* the record of a call that returns now
Call(r, tried, status, after) ==
    [queries |-> g_addresses[r][g_i[r]], tried |-> tried, status |-> status,
     before |-> g_before[r], after |-> after]

\* the call of _geocode_single of run r returns: its record is kept, and the
\* loop of line 239 goes to the next address or, after the last, to line 254
Return(r, tried, status, after) ==
    /\ g_calls' = [g_calls EXCEPT ![r] = Append(@, Call(r, tried, status, after))]
    /\ g_cache' = [g_cache EXCEPT ![r] = after]
    /\ g_before' = [g_before EXCEPT ![r] = after]
    /\ g_tried' = [g_tried EXCEPT ![r] = <<>>]
    /\ g_q' = [g_q EXCEPT ![r] = 1]
    /\ g_i' = [g_i EXCEPT ![r] = @ + 1]
    /\ g_pc' = [g_pc EXCEPT ![r] = IF g_i[r] < Len(g_addresses[r]) THEN "query"
                                   ELSE "save"]

\* lines 188-223: one pass of the loop over the queries, or the return of
\* "failed" once the list is used up
TryQuery(r) ==
    /\ g_pc[r] = "query"
    /\ LET queries == g_addresses[r][g_i[r]]
       IN  IF g_q[r] > Len(queries)
           THEN Return(r, g_tried[r], "failed", g_cache[r])
           ELSE LET query == queries[g_q[r]]
                IN  IF query \in DOMAIN g_cache[r]
                    THEN Return(r, Append(g_tried[r], [query |-> query,
                                                      outcome |-> "cached"]),
                                "ok", g_cache[r])
                    ELSE \E outcome \in LookupOutcomes :
                           IF outcome = "location"
                           THEN Return(r, Append(g_tried[r], [query |-> query,
                                                             outcome |-> outcome]),
                                       "ok", CacheAfter(g_cache[r], query, outcome))
                           ELSE /\ g_cache' = [g_cache EXCEPT ![r] =
                                                  CacheAfter(@, query, outcome)]
                                /\ g_tried' = [g_tried EXCEPT ![r] =
                                      Append(@, [query |-> query, outcome |-> outcome])]
                                /\ g_q' = [g_q EXCEPT ![r] = @ + 1]
                                /\ UNCHANGED <<g_pc, g_i, g_before, g_calls>>
    /\ UNCHANGED <<cache_file, g_addresses, g_order,
                   solver_vars, distance_vars, stream_vars>>

\* line 254 (and main.py 246): the whole dict is written over the file
SaveCache(r) ==
    /\ g_pc[r] = "save"
    /\ cache_file' = g_cache[r]
    /\ g_pc' = [g_pc EXCEPT ![r] = "done"]
    /\ g_order' = Append(g_order, <<r, "save">>)
    /\ UNCHANGED <<g_cache, g_addresses, g_i, g_q, g_tried, g_before, g_calls,
                   solver_vars, distance_vars, stream_vars>>

GeocodeNext == \E r \in Runs : LoadCache(r) \/ TryQuery(r) \/ SaveCache(r)

GeocodeSpec == GeocodeInit /\ [][GeocodeNext]_vars

OverlapSpec == OverlapInit /\ [][GeocodeNext]_vars

----------------------------------------------------------------------------
(* Properties of compute_distance_matrix *)

DReturned == d_pc = "returned"

\* the call took the chunked path
Chunked == use_roads /\ n_points > max_coords

\* the call reads the constants as the module sets them
RealConstants == max_coords = OSRM_MAX_COORDS /\ chunk_size = CHUNK_SIZE

\* request k did not succeed: no answer, an error status, or a payload that
\* is not a full table of numbers and nulls
RequestFailed(k) == requests[k].kind # "ok"

\* the returned matrix came from the live service
FromLiveService ==
    /\ DReturned
    /\ requests # <<>>
    /\ ~requests[Len(requests)].none

IsSquare(m, n) ==
    /\ DOMAIN m = Range(n)
    /\ \A i \in DOMAIN m : DOMAIN m[i] = Range(n)

\* what C8 expects in cell (i, j)
ExpectedCell(i, j) ==
    LET val == ServiceCell(service, coords[i + 1], coords[j + 1])
    IN  IF val = JSON_NULL \/ val < 0 THEN UNREACHABLE ELSE val

\* the matrix the single-request path makes of the service's full table
SinglePathMatrix ==
    NpWhere(NpArray(TableRequest(service, "ok", coords, RangeSeq(n_points),
                                 RangeSeq(n_points))[1])[1])

\* C4 as claimed: in the chunked path a failed sub-request is the last one
\* sent, and the call then returns the complete great-circle matrix.
C4_FailedSubRequestFallsBack ==
    Chunked =>
        /\ \A k \in 1..(Len(requests) - 1) : ~RequestFailed(k)
        /\ (d_pc \in {"returned", "raised"} /\ \E k \in 1..Len(requests) : RequestFailed(k))
              => (DReturned /\ result = HaversineMatrix(coords))

\* C4, the part the code keeps: a sub-request that _osrm_table_request
\* reports as None is the last one sent, the call then returns the complete
\* great-circle matrix, and any returned matrix is either that one or
\* the one assembled from the k * k answered sub-requests.
C4_ReportedFailureFallsBack ==
    Chunked =>
        /\ \A k \in 1..(Len(requests) - 1) : ~requests[k].none
        /\ (DReturned /\ \E k \in 1..Len(requests) : requests[k].none)
              => result = HaversineMatrix(coords)
        /\ (DReturned /\ \A k \in 1..Len(requests) : ~requests[k].none)
              => /\ Len(requests) = NumChunks(n_points, chunk_size)
                                      * NumChunks(n_points, chunk_size)
                 /\ \A i \in Range(n_points), j \in Range(n_points) :
                        result[i][j] = ExpectedCell(i, j)

\* C5 as claimed: whatever the service does, the call raises nothing and
\* returns an N x N matrix.
C5_NeverRaisesAndSquare ==
    /\ d_pc # "raised"
    /\ DReturned => IsSquare(result, n_points)

\* C5, the part the code keeps: a request that fails, answers an error
\* status, or answers without a usable "distances" field ends in the N x N
\* great-circle matrix.
C5_ReportedFailureIsFallback ==
    (DReturned /\ requests # <<>> /\ requests[Len(requests)].none) =>
        /\ requests[Len(requests)].kind \in FailureKinds
        /\ result = HaversineMatrix(coords)
        /\ IsSquare(result, n_points)

\* C6: when every sub-request of the chunked path is answered, the assembled
\* matrix equals, cell for cell, the matrix the single-request path makes of
\* the same service's table for the same points.
C6_ChunkedEqualsSingle ==
    (Chunked /\ DReturned /\ \A k \in 1..Len(requests) : requests[k].kind = "ok") =>
        result = SinglePathMatrix

\* C6 witness: four points in two chunks of two, the first-to-last pair
\* answered null, all four sub-requests answered and the matrix returned.
C6_Witness ==
    /\ Chunked /\ DReturned
    /\ n_points = 4 /\ chunk_size = 2
    /\ Len(requests) = 4
    /\ \A k \in 1..4 : requests[k].kind = "ok"
    /\ service.null = {<<0, 3>>}
    /\ result[0][3] = UNREACHABLE
    /\ result[3][0] = RoadDistance(3, 0)

\* C7: with the module's constants every request carries at most
\* OSRM_MAX_COORDS coordinates: one request with all N when N <= 100, and
\* for N > 100 sub-requests over two chunks of at most CHUNK_SIZE points each
\* (one chunk when paired with itself).  The same holds for lowered constants
\* whenever two chunks fit the cap.
C7_RequestsWithinCap ==
    \A k \in 1..Len(requests) :
        /\ RealConstants =>
              /\ requests[k].ncoords <= OSRM_MAX_COORDS
              /\ n_points <= OSRM_MAX_COORDS =>
                    (Len(requests) = 1 /\ requests[k].ncoords = n_points)
              /\ n_points > OSRM_MAX_COORDS =>
                    /\ requests[k].nsrc <= CHUNK_SIZE
                    /\ requests[k].ndst <= CHUNK_SIZE
                    /\ requests[k].ncoords =
                          IF requests[k].pair[1] = requests[k].pair[2]
                          THEN requests[k].nsrc
                          ELSE requests[k].nsrc + requests[k].ndst
        /\ 2 * chunk_size <= max_coords => requests[k].ncoords <= max_coords

\* C7 witness: 101 points with the module's constants, and a sub-request
\* over two full chunks, carrying exactly 100 coordinates.
C7_Witness ==
    /\ RealConstants
    /\ n_points = OSRM_MAX_COORDS + 1
    /\ \E k \in 1..Len(requests) :
          /\ requests[k].ncoords = OSRM_MAX_COORDS
          /\ requests[k].pair = <<1, 2>>

\* C8: in a matrix built from the live service every cell the service
\* answered with null or a negative number holds 1e9, every other cell holds
\* the answered value, and no cell is negative or NaN.
C8_LiveCellsSentinel ==
    FromLiveService =>
        \A i \in DOMAIN result : \A j \in DOMAIN result[i] :
            /\ result[i][j] = ExpectedCell(i, j)
            /\ result[i][j] # NaN
            /\ result[i][j] >= 0

\* C8 witness: a single-request matrix of three points whose last-to-last
\* cell was answered with a negative number.
C8_Witness ==
    /\ FromLiveService
    /\ ~Chunked
    /\ n_points = 3
    /\ service.negative = {<<2, 2>>}
    /\ IsSquare(result, 3)
    /\ result[2][2] = UNREACHABLE
    /\ result[0][2] = RoadDistance(0, 2)

\* C9: with use_roads = False no request is ever sent, and the returned
\* matrix is the great-circle matrix.
C9_NoRoadsNoRequests ==
    ~use_roads =>
        /\ requests = <<>>
        /\ d_pc # "raised"
        /\ DReturned => result = HaversineMatrix(coords)

\* C9 witness: a call with use_roads = False has returned the great-circle
\* matrix of three points.
C9_Witness ==
    /\ ~use_roads
    /\ DReturned
    /\ n_points = 3
    /\ coords = <<0, 1, 2>>
    /\ result[0][2] = 2000
    /\ requests = <<>>

\* the loop of lines 139-142 wrote cell (i, j) while handling request r: the
\* cell lies in the rows of the source chunk and the columns of the
\* destination chunk of r, among the cells written before any read raised
Wrote(r, i, j) ==
    LET src0 == (requests[r].pair[1] - 1) * chunk_size
        dst0 == (requests[r].pair[2] - 1) * chunk_size
    IN  /\ i >= src0 /\ i < src0 + requests[r].nsrc
        /\ j >= dst0 /\ j < dst0 + requests[r].ndst
        /\ (i - src0) * requests[r].ndst + (j - dst0) < requests[r].written

\* the chunk (1-based) that holds index i
ChunkOf(i) == (i \div chunk_size) + 1

\* C16: in a chunked run whose sub-requests all succeed there is exactly one
\* sub-request per ordered pair of chunks (k * k in all), every cell (i, j)
\* is written exactly once, by the sub-request of (chunk of i, chunk of j),
\* with the value the service answered for origin i and destination j, and
\* a cell holds 0 only where the service answered 0.
C16_OneWritePerCell ==
    (Chunked /\ DReturned /\ \A r \in 1..Len(requests) : requests[r].kind = "ok") =>
        LET k == (n_points + chunk_size - 1) \div chunk_size
        IN  /\ Len(requests) = k * k
            /\ \A a \in 1..k, b \in 1..k :
                  Cardinality({r \in 1..Len(requests) : requests[r].pair = <<a, b>>}) = 1
            /\ \A i \in Range(n_points), j \in Range(n_points) :
                  /\ {requests[r].pair : r \in {q \in 1..Len(requests) : Wrote(q, i, j)}}
                        = {<<ChunkOf(i), ChunkOf(j)>>}
                  /\ Cardinality({r \in 1..Len(requests) : Wrote(r, i, j)}) = 1
                  /\ result[i][j] = ExpectedCell(i, j)
                  /\ result[i][j] = 0 =>
                        ServiceCell(service, coords[i + 1], coords[j + 1]) = 0

\* C16 witness: three different points in chunks of two (the second chunk
\* short), every pair routed: four sub-requests, and the cell from the last
\* point to the first written by the sub-request of chunks (2, 1).
C16_Witness ==
    /\ Chunked /\ DReturned
    /\ coords = <<0, 1, 2>> /\ chunk_size = 2
    /\ service = [null |-> {}, negative |-> {}]
    /\ Len(requests) = 4
    /\ \A r \in 1..4 : requests[r].kind = "ok"
    /\ requests[3].pair = <<2, 1>> /\ Wrote(3, 2, 0)
    /\ result[2][0] = RoadDistance(2, 0)

----------------------------------------------------------------------------
(* Properties of optimize_route._stream *)

\* the generator has finished: it returned or an exception left it
StreamEnded == p_pc \in {"done", "crashed"}

\* C13, the part the code keeps: in the stream, with fewer than 2 rows
\* geocoded ok the filter yields the error line and returns, and neither
\* compute_distance_matrix nor solve_tsp is ever called; and solve_tsp is
\* only ever called with at least 2 stores.
C13_StreamRejectsFewStores ==
    /\ (Len(geocoded) = n_rows /\ Len(ValidIndices(geocoded)) < 2) =>
          /\ d_pc = "idle"
          /\ s_pc = "idle"
          /\ p_pc = "done" => events[Len(events)] = Event("error", "")
    /\ (d_pc # "idle" \/ s_pc # "idle") => Len(valid_indices) >= 2

\* C14: once the stream has called solve_tsp, in every mode and with or
\* without weights, the array it passed is still the one
\* compute_distance_matrix returned, at every step of solve_tsp and after.
C14_CallerMatrixUnchanged ==
    (p_pc \in {"solve", "done", "crashed"} /\ s_pc # "idle") =>
        /\ distance_matrix = dist_matrix
        /\ dist_matrix = result

\* C14 witness: a round trip with weights has been answered; the bias was
\* applied to the arc costs (the cost into the base, weight 0, is above the
\* scaled distance) and the caller's matrix still holds the distance.
C14_Witness ==
    /\ p_pc = "done"
    /\ journey_mode = "round_trip"
    /\ events[Len(events)] = Event("result", "")
    /\ Biased
    /\ distance_matrix[0][n_real - 1] = RoadDistance(0, BasePoint)
    /\ Int64Less(<<distance_matrix[0][n_real - 1], 0>>, int_matrix[0][n_real - 1])

\* result and error lines
Terminal(e) == e.type \in {"result", "error"}

\* the place of a line in the order geocoding, routing, solving, terminal
Rank(e) ==
    IF Terminal(e) THEN 4
    ELSE IF e.stage = "geocoding" THEN 1
    ELSE IF e.stage = "routing" THEN 2
    ELSE 3

CountWhere(P(_)) == Cardinality({a \in 1..Len(events) : P(events[a])})

\* the lines yielded so far are geocoding lines, then at most one routing
\* line, then at most one solving line, then at most one terminal line; a
\* result line comes after one routing and one solving line, an error line
\* after neither
EventsInOrder ==
    LET routing_line(e) == ~Terminal(e) /\ e.stage = "routing"
        solving_line(e) == ~Terminal(e) /\ e.stage = "solving"
        result_line(e)  == e.type = "result"
        error_line(e)   == e.type = "error"
    IN  /\ \A a \in 1..Len(events), b \in 1..Len(events) :
              a < b => /\ Rank(events[a]) <= Rank(events[b])
                       /\ ~Terminal(events[a])
        /\ CountWhere(routing_line) <= 1
        /\ CountWhere(solving_line) <= 1
        /\ CountWhere(solving_line) = 1 => CountWhere(routing_line) = 1
        /\ CountWhere(result_line) = 1 => CountWhere(solving_line) = 1
        /\ CountWhere(error_line) = 1 => CountWhere(routing_line) = 0

\* C17 as claimed: the lines come in the order geocoding, routing, solving,
\* result; nothing follows a result or error line; and every run that has
\* ended yielded exactly one result or error line, as its last line.
C17_OneTerminalEventLast ==
    /\ EventsInOrder
    /\ StreamEnded =>
          /\ CountWhere(Terminal) = 1
          /\ Terminal(events[Len(events)])

\* C17, the part the code keeps: the order of the lines, and exactly one
\* result or error line, the last one, in every run the generator returned
\* from.
C17_OrderAndTerminalOnReturn ==
    /\ EventsInOrder
    /\ p_pc = "done" =>
          /\ CountWhere(Terminal) = 1
          /\ Terminal(events[Len(events)])

\* the stream has yielded its result line
Answered == p_pc = "done" /\ events[Len(events)] = Event("result", "")

\* what C20 says of a result: one entry per row geocoded ok, each row once,
\* every entry a node of the route other than the base and in the order of
\* the route, visit_order 1..K, and total_stores = K
StoresComplete ==
    LET K == Len(valid_indices)
    IN  /\ Len(stores_response) = K
        /\ {stores_response[k].original_idx : k \in 1..Len(stores_response)}
              = SeqSet(valid_indices)
        /\ \A k \in 1..Len(stores_response) :
              /\ stores_response[k].visit_order = k
              /\ stream_depot_idx # <<>> =>
                    stores_response[k].node # stream_depot_idx[1]
        /\ [k \in 1..Len(stores_response) |-> stores_response[k].node]
              = StoreRoute(route, stream_depot_idx)
        /\ summary = <<[total_stores |-> K]>>

\* C20 as claimed: in every result, in all three journey modes, the stores
\* list holds every row geocoded ok exactly once and never the base, in the
\* order of the solver's route, with visit_order 1..K, and total_stores = K.
C20_StoresListComplete == Answered => StoresComplete

\* C20, the part the code keeps: the same, for every result built from an
\* N x N distance matrix.
C20_StoresCompleteWhenSquare ==
    (Answered /\ IsSquare(dist_matrix, Len(stream_coords))) => StoresComplete

----------------------------------------------------------------------------
(* Properties of the geocoder *)

\* the lookup found nothing or raised one of the two caught exceptions
Missed(outcome) == outcome \in {"none", "timeout", "service_error"}

\* the keys a finished call added to the cache
AddedBy(c) == DOMAIN c.after \ DOMAIN c.before

\* what C19 says of one finished call
CallAsClaimed(c) ==
    LET T == Len(c.tried)
    IN  /\ T <= Len(c.queries)
        /\ \A k \in 1..T :
              /\ c.tried[k].query = c.queries[k]
              /\ c.tried[k].outcome = "cached" <=> c.queries[k] \in DOMAIN c.before
              /\ k < T => Missed(c.tried[k].outcome)
        /\ c.status \in {"ok", "failed"}
        /\ c.status = "ok" <=> (T > 0 /\ ~Missed(c.tried[T].outcome))
        /\ c.status = "failed" <=>
              /\ T = Len(c.queries)
              /\ \A k \in 1..T : /\ c.queries[k] \notin DOMAIN c.before
                                  /\ Missed(c.tried[k].outcome)
        /\ c.status = "failed" => c.after = c.before
        /\ Cardinality(AddedBy(c)) <= 1
        /\ \A q \in DOMAIN c.before : q \in DOMAIN c.after /\ c.after[q] = c.before[q]
        /\ \A q \in AddedBy(c) :
              /\ c.tried[T] = [query |-> q, outcome |-> "location"]
              /\ c.after[q] = Location(q)
        /\ (T > 0 /\ c.tried[T].outcome = "location") => AddedBy(c) = {c.tried[T].query}

\* C19: every call of _geocode_single tries its queries in list order and
\* stops at the first one found in the cache or located; it adds at most one
\* cache entry, and only for a located query; it returns failed only when
\* every query was absent from the cache and every lookup found nothing or
\* raised, and then leaves the cache as it was.  The cache of a call under
\* way only changes by such an entry.
C19_GeocodeSingleOrderAndCache ==
    \A r \in Runs :
        /\ \A n \in 1..Len(g_calls[r]) : CallAsClaimed(g_calls[r][n])
        /\ g_pc[r] = "query" =>
              /\ g_cache[r] = g_before[r]
              /\ \A k \in 1..Len(g_tried[r]) : Missed(g_tried[r][k].outcome)

\* C19 witness: a call over two queries, neither cached, whose first lookup
\* timed out and whose second found a location, has added the second query;
\* and the next call, over the same queries in the other order, was served
\* from the cache by that entry.
C19_Witness ==
    /\ Len(g_calls[1]) = 2
    /\ g_calls[1][1].queries = <<1, 2>>
    /\ g_calls[1][1].before = <<>>
    /\ g_calls[1][1].tried = <<[query |-> 1, outcome |-> "timeout"],
                               [query |-> 2, outcome |-> "location"]>>
    /\ g_calls[1][1].status = "ok"
    /\ DOMAIN g_calls[1][1].after = {2}
    /\ g_calls[1][2].queries = <<2, 1>>
    /\ g_calls[1][2].tried = <<[query |-> 2, outcome |-> "cached"]>>

\* the keys run r added in memory
AddedByRun(r) == UNION {AddedBy(g_calls[r][n]) : n \in 1..Len(g_calls[r])}

AllDone == \A r \in Runs : g_pc[r] = "done"

\* C18 as claimed: when both runs have finished, the cache file holds every
\* entry either run added.
C18_NoLostUpdate ==
    AllDone => \A r \in Runs : AddedByRun(r) \subseteq DOMAIN cache_file

\* C18, the part the code keeps: the file holds what the run that saved last
\* had in memory, so nothing is lost when that run loaded the file after the
\* other one saved it.
C18_LastSaveWins ==
    AllDone =>
        \E last \in Runs :
            /\ g_order[Len(g_order)] = <<last, "save">>
            /\ cache_file = g_cache[last]
            /\ (\E a \in 1..Len(g_order), b \in 1..Len(g_order) :
                    /\ a < b
                    /\ g_order[a][2] = "save" /\ g_order[a][1] # last
                    /\ g_order[b] = <<last, "load">>)
                  => \A r \in Runs : AddedByRun(r) \subseteq DOMAIN cache_file

====
